---- MODULE Spec2Model ----
(***************************************************************************)
(* DealPilot: the POST /api/find-and-buy handler of server.js.             *)
(*                                                                         *)
(* One request runs the handler from top to bottom and is suspended at its *)
(* awaits: the completion call, the automation fetch, and the read of the  *)
(* automation response body (text() on a non-success status, json()        *)
(* otherwise).  Every handler-scope variable is kept per request.          *)
(*                                                                         *)
(* JavaScript values are records tagged by kind.  Numbers are exact        *)
(* fractions n/d; on the bounded values used here IEEE division and        *)
(* subtraction keep the order and the equality of the exact fractions.     *)
(***************************************************************************)
EXTENDS Integers, Sequences, FiniteSets, TLC

(* ------------------------------ bounds --------------------------------- *)
MaxLen == 3
MaxPrice == 2
MaxStr == 4
NumReqs == 3

Reqs == 1..NumReqs

(* --------------------------- JS number values -------------------------- *)
\* t: "num" (finite n/d), "inf", "ninf", "nan"; as a property value also
\* "undef" (property missing) and "str" (a non-numeric string such as "N/A").
JsV(t) == [t |-> t, n |-> 0, d |-> 1]

RECURSIVE GCD(_, _)
GCD(a, b) == IF b = 0 THEN a ELSE GCD(b, a % b)

Abs(i) == IF i < 0 THEN -i ELSE i

\* the finite number n/d (d # 0), in lowest terms with a positive denominator
Num(n, d) ==
    LET g == GCD(Abs(n), Abs(d))
        s == IF d < 0 THEN -1 ELSE 1
    IN [t |-> "num", n |-> (s * n) \div g, d |-> (s * d) \div g]

\* ToNumber of a property value: undefined and a non-numeric string give NaN
ToNumber(v) == IF v.t \in {"undef", "str"} THEN JsV("nan") ELSE v

\* -1, 0, 1 for finite and infinite numbers
Sign(v) ==
    CASE v.t = "inf" -> 1
      [] v.t = "ninf" -> -1
      [] OTHER -> IF v.n > 0 THEN 1 ELSE IF v.n < 0 THEN -1 ELSE 0

Signed(s) == IF s > 0 THEN JsV("inf") ELSE JsV("ninf")

\* a / b
Div(x, y) ==
    LET a == ToNumber(x)
        b == ToNumber(y)
    IN CASE a.t = "nan" \/ b.t = "nan" -> JsV("nan")
         [] a.t = "num" /\ b.t = "num" ->
              IF b.n = 0
              THEN IF a.n = 0 THEN JsV("nan") ELSE Signed(Sign(a))
              ELSE Num(a.n * b.d, a.d * b.n)
         [] a.t = "num" -> Num(0, 1)
         [] b.t = "num" -> Signed(Sign(a) * (IF Sign(b) < 0 THEN -1 ELSE 1))
         [] OTHER -> JsV("nan")

\* a - b
Sub(x, y) ==
    LET a == ToNumber(x)
        b == ToNumber(y)
    IN CASE a.t = "nan" \/ b.t = "nan" -> JsV("nan")
         [] a.t = "num" /\ b.t = "num" -> Num(a.n * b.d - b.n * a.d, a.d * b.d)
         [] a.t = "num" -> Signed(-Sign(b))
         [] b.t = "num" -> a
         [] OTHER -> IF a.t = b.t THEN JsV("nan") ELSE a

\* Number.isFinite(v): no coercion, true of finite numbers only
NumberIsFinite(v) == v.t = "num"

\* v > 0 (relational comparison, through ToNumber)
GreaterThanZero(v) == ToNumber(v).t = "inf" \/ (ToNumber(v).t = "num" /\ v.n > 0)

(* ------------------------- completion reply ---------------------------- *)
\* An element of the offers array: null, a primitive, or an object whose
\* basePrice and packSize are property values.
NullElem == [k |-> "null"]
PrimElem == [k |-> "prim"]
Offer(url, bp, ps) == [k |-> "obj", productUrl |-> url, basePrice |-> bp, packSize |-> ps]

\* c.basePrice, c.packSize: undefined on a primitive (c is never null here)
BasePriceOf(c) == IF c.k = "obj" THEN c.basePrice ELSE JsV("undef")
PackSizeOf(c) == IF c.k = "obj" THEN c.packSize ELSE JsV("undef")

\* property values of a parsed object: missing, falsy, a truthy non-array, an array
WUndef == [w |-> "undef"]
WFalsy == [w |-> "falsy"]
WTruthy == [w |-> "truthy"]
WArr(a) == [w |-> "arr", a |-> a]

\* the message content: none (no choice, null or ""), text that is not JSON,
\* or JSON text, given by the value JSON.parse returns for it
NoContent == [c |-> "none"]
BadJson == [c |-> "text"]
JsonNull == [c |-> "json", j |-> "null"]
JsonPrim == [c |-> "json", j |-> "prim"]
JsonArr(a) == [c |-> "json", j |-> "arr", a |-> a]
JsonObj(items, results) == [c |-> "json", j |-> "obj", items |-> items, results |-> results]

Truthy(w) == w.w \in {"truthy", "arr"}

\* parsed.items || parsed.results || []
NormalizeEmptyIsFalsy(content) ==
    CASE content.c = "none" -> WArr(<<>>)
      [] content.c = "text" -> WArr(<<>>)
      [] content.j = "null" -> WArr(<<>>)
      [] content.j = "prim" -> WArr(<<>>)
      [] content.j = "arr" -> WArr(content.a)
      [] OTHER ->
           IF Truthy(content.items) /\ content.items # WArr(<<>>) THEN content.items
           ELSE IF Truthy(content.results) THEN content.results
           ELSE WArr(<<>>)

\* lines 67-75: raw = content || "[]"; parsed = JSON.parse(raw);
\* candidates = Array.isArray(parsed) ? parsed : (parsed.items || parsed.results || []);
\* a throw (bad JSON, or a property read on null) leaves candidates = []
Normalize(content) ==
    CASE content.c = "none" -> WArr(<<>>)
      [] content.c = "text" -> WArr(<<>>)
      [] content.j = "null" -> WArr(<<>>)
      [] content.j = "prim" -> WArr(<<>>)
      [] content.j = "arr" -> WArr(content.a)
      [] OTHER ->
           IF Truthy(content.items) THEN content.items
           ELSE IF Truthy(content.results) THEN content.results
           ELSE WArr(<<>>)

\* !Array.isArray(candidates) || candidates.length === 0
NoCandidates(cands) == cands.w # "arr" \/ Len(cands.a) = 0

(* ------------------------- best-offer selection ------------------------ *)
\* the filter callback reads c.basePrice first: a null element throws a TypeError
FilterThrows(a) == \E i \in 1..Len(a) : a[i].k = "null"

NoPositiveCheck(c) ==
    NumberIsFinite(BasePriceOf(c)) /\ NumberIsFinite(PackSizeOf(c))

\* Number.isFinite(c.basePrice) && Number.isFinite(c.packSize) && c.packSize > 0
Qualifies(c) ==
    /\ NumberIsFinite(BasePriceOf(c))
    /\ NumberIsFinite(PackSizeOf(c))
    /\ GreaterThanZero(PackSizeOf(c))

\* ({ ...c, unitPrice: c.basePrice / c.packSize })
Scored(c) ==
    [k |-> "obj", productUrl |-> c.productUrl, basePrice |-> c.basePrice,
     packSize |-> c.packSize, unitPrice |-> Div(c.basePrice, c.packSize)]

RECURSIVE Filter(_)
Filter(a) ==
    IF a = <<>> THEN <<>>
    ELSE IF Qualifies(Head(a)) THEN <<Head(a)>> \o Filter(Tail(a))
    ELSE Filter(Tail(a))

\* candidates.filter(...).map(...)
WithUnits(a) == [i \in 1..Len(Filter(a)) |-> Scored(Filter(a)[i])]

Front(s) == SubSeq(s, 1, Len(s) - 1)
Last(s) == s[Len(s)]

CompareDescending(a, b) == Sub(b.unitPrice, a.unitPrice)

\* the comparator (a, b) => a.unitPrice - b.unitPrice
Compare(a, b) == Sub(a.unitPrice, b.unitPrice)

\* the comparator's result is > 0 (NaN counts as 0)
Positive(v) == v.t = "inf" \/ (v.t = "num" /\ v.n > 0)

RECURSIVE InsertBeforeEqual(_, _)
InsertBeforeEqual(s, x) ==
    IF s = <<>> THEN <<x>>
    ELSE IF ~Positive(Compare(x, Last(s)))
         THEN Append(InsertBeforeEqual(Front(s), x), Last(s))
         ELSE Append(s, x)

\* one step of the insertion sort Array.prototype.sort runs on short arrays:
\* x goes behind every element that does not compare greater than it
RECURSIVE Insert(_, _)
Insert(s, x) ==
    IF s = <<>> THEN <<x>>
    ELSE IF Positive(Compare(Last(s), x))
         THEN Append(Insert(Front(s), x), Last(s))
         ELSE Append(s, x)

\* withUnits.sort((a, b) => a.unitPrice - b.unitPrice)
RECURSIVE Sort(_)
Sort(s) == IF s = <<>> THEN <<>> ELSE Insert(Sort(Front(s)), Last(s))

(* --------------------------- automation reply -------------------------- *)
\* A string is a sequence of tokens: "x" a character of plain text, "{" and
\* "}" the braces, "m" a complete member such as "finalPrice":12.5 .
Tokens == {"x", "{", "}", "m"}

\* A JSON value of the automation reply.  t: "undef", "null", "falsy" (0 or
\* false), "str" (the string s) or "obj"; p is the content of an object:
\* "empty" for {}, "m" for an object with the member m, "raw" for { raw: s }.
Leaf(t, s, p) == [t |-> t, s |-> s, p |-> p]
LUndef == Leaf("undef", <<>>, "")
LNull == Leaf("null", <<>>, "")
LFalsy == Leaf("falsy", <<>>, "")
LStr(s) == Leaf("str", s, "")
LObj(p) == Leaf("obj", <<>>, p)

\* the top-level value, with its result and data properties (undefined on a
\* value that is not an object)
Top(v, result, data) == [t |-> v.t, s |-> v.s, p |-> v.p, result |-> result, data |-> data]
Lift(v) == Top(v, LUndef, LUndef)

Nullish(v) == v.t \in {"undef", "null"}

\* buJson?.result ?? buJson?.data ?? buJson
Pick(buJson) ==
    IF ~Nullish(buJson.result) THEN Lift(buJson.result)
    ELSE IF ~Nullish(buJson.data) THEN Lift(buJson.data)
    ELSE buJson

\* checkout.match(/\{[\s\S]*\}/): from the first "{" to the last "}" behind it
Opens(s) == {i \in 1..Len(s) : s[i] = "{"}
Closes(s) == {i \in 1..Len(s) : s[i] = "}"}
Min(S) == CHOOSE i \in S : \A j \in S : i <= j
Max(S) == CHOOSE i \in S : \A j \in S : j <= i

Matches(s) == Opens(s) # {} /\ \E j \in Closes(s) : j > Min(Opens(s))

Match(s) == SubSeq(s, Min(Opens(s)), Max(Closes(s)))

\* JSON.parse(m[0]) of a span that starts with "{" and ends with "}": over
\* these tokens the JSON texts are {} and {m}; any other span throws
Parses(span) == span \in {<<"{", "}">>, <<"{", "m", "}">>}
JsonParse(span) == IF Len(span) = 2 THEN Lift(LObj("empty")) ELSE Lift(LObj("m"))

Raw(s) == Lift(Leaf("obj", s, "raw"))
EmptyObject == Lift(LObj("empty"))

\* lines 128-144: the body read by json() is body.v, or json() rejects
Checkout(body) ==
    IF body.rej THEN EmptyObject
    ELSE LET picked == Pick(body.v)
         IN IF picked.t # "str" THEN picked
            ELSE IF ~Matches(picked.s) THEN Raw(picked.s)
            ELSE IF Parses(Match(picked.s)) THEN JsonParse(Match(picked.s))
            ELSE EmptyObject

(* ------------------------------- inputs -------------------------------- *)
\* the request body: none (req.body || {}), or an object with its query
\* property: missing, null, a number, a non-string object, or a string
NoBody == [b |-> "none"]
Body(q) == [b |-> "obj", query |-> q]
QUndef == [t |-> "undef"]
QNull == [t |-> "null"]
QNum(n) == [t |-> "num", n |-> n]
QObj == [t |-> "obj"]
QStr(s) == [t |-> "str", s |-> s]

Bodies ==
    {NoBody} \cup
    {Body(q) : q \in {QUndef, QNull, QNum(0), QNum(7), QObj, QStr(""), QStr("diapers")}}

Half == Num(1, 2)
One == Num(1, 1)
Prices == {Num(p, 1) : p \in 1..MaxPrice}
Packs == {Half, One, Num(2, 1)}

\* every price at every pack size, a free offer, and one of negative price
\* that another shop sells
ValidOffers ==
    {Offer("shop/a", bp, ps) : bp \in Prices, ps \in Packs} \cup
    {Offer("shop/a", Num(0, 1), One), Offer("shop/b", Num(-1, 1), One)}
InvalidOffers ==
    {Offer("shop/a", bp, One) : bp \in {JsV("undef"), JsV("inf")}} \cup
    {Offer("shop/a", One, ps) : ps \in {JsV("str"), JsV("inf"), Num(0, 1), Num(-1, 1)}}
Elements == ValidOffers \cup InvalidOffers \cup {NullElem, PrimElem}

\* what else an object may hold under items or results
Others == {WUndef, WFalsy, WTruthy, WArr(<<>>), WArr(<<Offer("shop/b", One, One)>>)}

\* replies that hold no array of offers, or none but those of Others
PlainReplies ==
    {NoContent, BadJson, JsonNull, JsonPrim, JsonArr(<<>>)} \cup
    {JsonObj(x, y) : x, y \in Others}

\* the array a under items, or under results
Wrappings(a) ==
    {JsonObj(WArr(a), y) : y \in Others} \cup {JsonObj(x, WArr(a)) : x \in Others}

TextRejects == [b |-> "text", rej |-> TRUE]
TextBody(txt) == [b |-> "text", rej |-> FALSE, txt |-> txt]
JsonRejects == [b |-> "json", rej |-> TRUE]
JsonBody(v) == [b |-> "json", rej |-> FALSE, v |-> v]

TextBodies == {TextRejects, TextBody(""), TextBody("rate limited")}

LeafSmall == {LUndef, LNull, LFalsy, LObj("m"), LStr(<<"x">>)}
LeafPlain == {LUndef, LNull, LFalsy, LObj("empty"), LObj("m"), LStr(<<>>)}

\* the value v as the whole reply, under result, or under data
TopsWith(v) ==
    (IF v = LUndef THEN {} ELSE {Lift(v)}) \cup
    {Top(LObj(p), v, b) : p \in {"empty", "m"}, b \in LeafSmall} \cup
    {Top(LObj(p), a, v) : p \in {"empty", "m"}, a \in LeafSmall}

\* replies that hold no string but the empty one and "x"
JsonBodies == {JsonRejects} \cup {JsonBody(t) : t \in UNION {TopsWith(v) : v \in LeafPlain}}

\* one reply of each kind, for the runs that vary the other service
FewChatReplies ==
    {NoContent, JsonArr(<<Offer("shop/b", Num(2, 1), One), Offer("shop/a", One, One)>>),
     JsonObj(WArr(<<Offer("shop/a", One, Half)>>), WUndef)}
FewTextBodies == {TextBody("rate limited")}
FewJsonBodies == {JsonRejects, JsonBody(Lift(LObj("m")))}

(* -------------------------------- state -------------------------------- *)
VARIABLES
    pc,          \* where each request's handler is suspended
    query,       \* const { query } = req.body || {}
    candidates,  \* let candidates
    withUnits,   \* const withUnits
    best,        \* const best
    buResp,      \* const buResp
    response,    \* the response sent on res
    calls,       \* the outbound calls each request has issued, in order
    received     \* what each request was given: its body and the upstream replies

vars == <<pc, query, candidates, withUnits, best, buResp, response, calls, received>>

Unset == [t |-> "unset"]
NoBest == [k |-> "unset"]
NoResp == [st |-> "unset"]
NoResponse == [status |-> 0]
NothingReceived == [body |-> [b |-> "unset"], chat |-> [c |-> "unset"],
                    fetch |-> "unset", read |-> [b |-> "unset"]]

Init ==
    /\ pc = [r \in Reqs |-> "idle"]
    /\ query = [r \in Reqs |-> Unset]
    /\ candidates = [r \in Reqs |-> WUndef]
    /\ withUnits = [r \in Reqs |-> <<>>]
    /\ best = [r \in Reqs |-> NoBest]
    /\ buResp = [r \in Reqs |-> NoResp]
    /\ response = [r \in Reqs |-> NoResponse]
    /\ calls = [r \in Reqs |-> <<>>]
    /\ received = [r \in Reqs |-> NothingReceived]

ModuleLevel(f, r, v) == [q \in DOMAIN f |-> v]

\* a const or let of the handler's scope: one binding per invocation
Local(f, r, v) == [f EXCEPT ![r] = v]

\* a response that is sent without returning from the handler
RespondNoReturn(r, resp) ==
    /\ response' = [response EXCEPT ![r] = resp]
    /\ UNCHANGED pc

\* res.status(...).json(...) and return
Respond(r, resp) ==
    /\ response' = [response EXCEPT ![r] = resp]
    /\ pc' = [pc EXCEPT ![r] = "done"]

ServerError == [status |-> 500, error |-> "Server error"]
BadGateway(msg) == [status |-> 502, error |-> msg]

QueryOf(body) == IF body.b = "none" THEN QUndef ELSE body.query

TypeofStringOnly(q) == q.t = "str"

\* !(!query || typeof query !== "string")
ValidQuery(q) == q.t = "str" /\ q.s # ""

(* ------------------------------- actions ------------------------------- *)
\* lines 38-56: the request arrives; a bad query is answered 400, otherwise
\* the completion call is issued
Receive(r, B) ==
    /\ pc[r] = "idle"
    /\ \E body \in B :
         /\ received' = [received EXCEPT ![r].body = body]
         /\ query' = Local(query, r, QueryOf(body))
         /\ IF ~ValidQuery(QueryOf(body))
            THEN /\ Respond(r, [status |-> 400, error |-> "Missing 'query' string"])
                 /\ UNCHANGED calls
            ELSE /\ calls' = [calls EXCEPT ![r] =
                        Append(@, [svc |-> "completion", query |-> QueryOf(body)])]
                 /\ pc' = [pc EXCEPT ![r] = "awaitChat"]
                 /\ UNCHANGED response
    /\ UNCHANGED <<candidates, withUnits, best, buResp>>

\* line 56 throws: the top-level catch answers 500
ChatRejects(r) ==
    /\ pc[r] = "awaitChat"
    /\ received' = [received EXCEPT ![r].chat = [c |-> "rejected"]]
    /\ Respond(r, ServerError)
    /\ UNCHANGED <<query, candidates, withUnits, best, buResp, calls>>

\* lines 66-121: with the message content of the completion: parse,
\* normalize, filter, score, sort, and issue the automation call
Select(r, content) ==
    /\ TRUE
    /\   LET cands == Normalize(content) IN
         /\ received' = [received EXCEPT ![r].chat = content]
         /\ candidates' = Local(candidates, r, cands)
         /\ IF NoCandidates(cands)
            THEN /\ Respond(r, BadGateway("LLM returned no candidates"))
                 /\ UNCHANGED <<withUnits, best, calls>>
            ELSE IF FilterThrows(cands.a)
            THEN /\ Respond(r, ServerError)
                 /\ UNCHANGED <<withUnits, best, calls>>
            ELSE IF Len(WithUnits(cands.a)) = 0
            THEN /\ withUnits' = Local(withUnits, r, <<>>)
                 /\ Respond(r, BadGateway("Candidates missing price/packSize"))
                 /\ UNCHANGED <<best, calls>>
            ELSE LET sorted == Sort(WithUnits(cands.a)) IN
                 /\ withUnits' = Local(withUnits, r, sorted)
                 /\ best' = Local(best, r, sorted[1])
                 /\ calls' = [calls EXCEPT ![r] =
                        Append(@, [svc |-> "automation", productUrl |-> sorted[1].productUrl,
                                   query |-> query[r]])]
                 /\ pc' = [pc EXCEPT ![r] = "awaitFetch"]
                 /\ UNCHANGED response
    /\ UNCHANGED <<query, buResp>>

\* the completion resolves: with a reply of C, or with an array of 1..n
\* elements of E, on its own or (shorter than n) under items or results
ChatReturns(r, C, E, n) ==
    /\ pc[r] = "awaitChat"
    /\ \/ \E content \in C : Select(r, content)
       \/ \E k \in 1..n : \E a \in [1..k -> E] : Select(r, JsonArr(a))
       \/ \E k \in 1..(n - 1) : \E a \in [1..k -> E] :
             \E content \in Wrappings(a) : Select(r, content)

\* line 107 throws (the fetch does not complete): the top-level catch answers 500
FetchRejects(r) ==
    /\ pc[r] = "awaitFetch"
    /\ received' = [received EXCEPT ![r].fetch = "rejected"]
    /\ Respond(r, ServerError)
    /\ UNCHANGED <<query, candidates, withUnits, best, buResp, calls>>

\* lines 107-130: the fetch resolves with a status; the body is read next
FetchResolves(r) ==
    /\ pc[r] = "awaitFetch"
    /\ \E ok \in BOOLEAN :
         /\ received' = [received EXCEPT ![r].fetch = IF ok THEN "ok" ELSE "notok"]
         /\ buResp' = Local(buResp, r, [st |-> "response", ok |-> ok])
         /\ pc' = [pc EXCEPT ![r] = IF ok THEN "awaitJson" ELSE "awaitText"]
    /\ UNCHANGED <<query, candidates, withUnits, best, response, calls>>

\* lines 124-125: txt = await buResp.text().catch(() => "")
BodyText(r, T) ==
    /\ pc[r] = "awaitText"
    /\ \E body \in T :
         /\ received' = [received EXCEPT ![r].read = body]
         /\ Respond(r, [status |-> 502, error |-> "Browser-use request failed",
                        details |-> IF body.rej THEN "" ELSE body.txt])
    /\ UNCHANGED <<query, candidates, withUnits, best, buResp, calls>>

\* lines 128-151: with the body read as JSON: checkout is normalized, 200
Finish(r, body) ==
    /\ TRUE
    /\   /\ received' = [received EXCEPT ![r].read = body]
         /\ Respond(r, [status |-> 200, query |-> query[r], candidates |-> withUnits[r],
                        best |-> best[r], checkout |-> Checkout(body)])
    /\ UNCHANGED <<query, candidates, withUnits, best, buResp, calls>>

\* json() settles: with a body of J, or with a string of 1..n tokens as the
\* whole reply, under result, or under data
BodyJson(r, J, n) ==
    /\ pc[r] = "awaitJson"
    /\ \/ \E body \in J : Finish(r, body)
       \/ \E k \in 1..n : \E s \in [1..k -> Tokens] :
             \E t \in TopsWith(LStr(s)) : Finish(r, JsonBody(t))

(* --------------------------- specifications ---------------------------- *)
Solo == {1}

\* one request, every shape of completion reply
Next ==
    \E r \in Solo :
        \/ Receive(r, Bodies)
        \/ ChatRejects(r)
        \/ ChatReturns(r, PlainReplies \cup Wrappings(<<>>), Elements, MaxLen)
        \/ FetchRejects(r)
        \/ FetchResolves(r)
        \/ BodyText(r, FewTextBodies)
        \/ BodyJson(r, FewJsonBodies, 0)

Spec == Init /\ [][Next]_vars

\* one request, every shape of automation reply
NextCheckout ==
    \E r \in Solo :
        \/ Receive(r, Bodies)
        \/ ChatRejects(r)
        \/ ChatReturns(r, FewChatReplies, {}, 0)
        \/ FetchRejects(r)
        \/ FetchResolves(r)
        \/ BodyText(r, TextBodies)
        \/ BodyJson(r, JsonBodies, MaxStr)

SpecCheckout == Init /\ [][NextCheckout]_vars

\* NumReqs requests whose handlers interleave at their awaits
ConcBodies == {NoBody, Body(QStr("diapers"))}

NextConc ==
    \E r \in Reqs :
        \/ Receive(r, ConcBodies)
        \/ ChatRejects(r)
        \/ ChatReturns(r, FewChatReplies, {}, 0)
        \/ FetchRejects(r)
        \/ FetchResolves(r)
        \/ BodyText(r, FewTextBodies)
        \/ BodyJson(r, FewJsonBodies, 0)

SpecConc == Init /\ [][NextConc]_vars

(* ------------------------------ properties ----------------------------- *)
\* the completion reply of request r has been processed
Processed(r) == received[r].chat.c \notin {"unset", "rejected"}

\* a <= b and a < b on finite numbers (denominators are positive)
Leq(a, b) == a.t = "num" /\ b.t = "num" /\ a.n * b.d <= b.n * a.d
Less(a, b) == a.t = "num" /\ b.t = "num" /\ a.n * b.d < b.n * a.d

\* the offer a scored offer was made from
Strip(c) == Offer(c.productUrl, c.basePrice, c.packSize)

\* a valid offer, as the specification defines it: an offer record whose
\* basePrice is a finite number and whose packSize is a finite number > 0
ValidOffer(e) ==
    /\ e.k = "obj"
    /\ e.basePrice.t = "num"
    /\ e.packSize.t = "num"
    /\ e.packSize.n > 0

\* u = e.basePrice / e.packSize, stated without the division
IsUnitPriceOf(u, e) ==
    /\ u.t = "num"
    /\ u.n * e.packSize.n * e.basePrice.d = e.basePrice.n * u.d * e.packSize.d

Valids(a) == SelectSeq(a, ValidOffer)

\* C1: in every 200 response, candidates is sorted ascending by unitPrice,
\* best is candidates[0], and no candidate has a unitPrice below best's.
C1_SortedBestFirst ==
    \A r \in Reqs :
        response[r].status = 200 =>
            LET c == response[r].candidates IN
            /\ Len(c) >= 1
            /\ \A i \in 1..(Len(c) - 1) : Leq(c[i].unitPrice, c[i + 1].unitPrice)
            /\ response[r].best = c[1]
            /\ \A i \in 1..Len(c) : ~Less(c[i].unitPrice, response[r].best.unitPrice)

\* a 200 response to three offers that arrived in descending order of unit price
C1_Witness ==
    \E r \in Reqs :
        /\ response[r].status = 200
        /\ received[r].chat = JsonArr(<<Offer("shop/a", Num(2, 1), Half),
                                        Offer("shop/a", One, One),
                                        Offer("shop/a", One, Num(2, 1))>>)
        /\ Len(response[r].candidates) = 3

\* C2 (as claimed): an element that is not a valid offer never appears in
\* candidates, and the request proceeds with the valid offers as if the
\* invalid elements had not been in the array.
C2_InvalidElementsDropped ==
    \A r \in Reqs :
        (Processed(r) /\ candidates[r].w = "arr") =>
            LET a == candidates[r].a IN
            /\ \A i \in 1..Len(withUnits[r]) : ValidOffer(Strip(withUnits[r][i]))
            /\ (Valids(a) # <<>> /\ Valids(a) # a) =>
                  /\ withUnits[r] = Sort(WithUnits(Valids(a)))
                  /\ Len(calls[r]) = 2
                  /\ response[r] # ServerError \/ received[r].fetch = "rejected"

\* C3 (as claimed): a failed automation call, at the network level or by a
\* non-success status, ends the request with 502 and an error string, with
\* the upstream body in details when a body was read; never with 200 or 500.
C3_AutomationFailureIs502 ==
    \A r \in Reqs :
        (pc[r] = "done" /\ received[r].fetch \in {"rejected", "notok"}) =>
            /\ response[r].status = 502
            /\ response[r].error = "Browser-use request failed"
            /\ (received[r].read.b = "text" /\ ~received[r].read.rej) =>
                  response[r].details = received[r].read.txt

\* C4 (as claimed): when the automation reply, taken directly or from result
\* or data, is a string, checkout is the object parsed from its {...} span if
\* that span parses as JSON and { raw: string } otherwise, in a 200 response.
C4_StringCheckout ==
    \A r \in Reqs :
        (/\ pc[r] = "done"
         /\ received[r].read.b = "json"
         /\ ~received[r].read.rej
         /\ Pick(received[r].read.v).t = "str") =>
            LET str == Pick(received[r].read.v).s IN
            /\ response[r].status = 200
            /\ response[r].checkout =
                  IF Matches(str) /\ Parses(Match(str))
                  THEN JsonParse(Match(str)) ELSE Raw(str)

\* the scored offers of a 200 response: its candidates and its best
ScoredIn(r) == {response[r].candidates[i] : i \in 1..Len(response[r].candidates)}
                   \cup {response[r].best}

\* C5 (amended): every scored offer of a 200 response has a finite basePrice,
\* a finite packSize greater than zero (an integer or not), and a unitPrice
\* equal to basePrice / packSize of that same offer.
C5_ScoredFromValidFields ==
    \A r \in Reqs :
        response[r].status = 200 =>
            \A c \in ScoredIn(r) :
                /\ ValidOffer(Strip(c))
                /\ IsUnitPriceOf(c.unitPrice, c)

\* C5 (as claimed): the same, and every scored packSize is an integer.
C5_IntegerPackSize ==
    \A r \in Reqs :
        response[r].status = 200 =>
            \A c \in ScoredIn(r) :
                /\ ValidOffer(Strip(c))
                /\ IsUnitPriceOf(c.unitPrice, c)
                /\ c.packSize.d = 1

\* a 200 response that holds an offer of the packSize 1/2, scored 1/(1/2) = 2,
\* behind a best offer of the packSize 2
C5_Witness ==
    \E r \in Reqs :
        /\ response[r].status = 200
        /\ response[r].best.packSize = Num(2, 1)
        /\ \E c \in ScoredIn(r) :
              c.basePrice = One /\ c.packSize = Half /\ c.unitPrice = Num(2, 1)

\* the array a completion reply yields, as the specification describes it:
\* the bare array, or the array wrapped under items, or else under results;
\* anything else (no content, bad JSON, another value) yields nothing
Yields(reply) ==
    IF reply.c # "json" \/ reply.j \in {"null", "prim"} THEN <<>>
    ELSE IF reply.j = "arr" THEN reply.a
    ELSE IF reply.items.w = "arr" THEN reply.items.a
    ELSE IF reply.items.w = "truthy" THEN <<>>
    ELSE IF reply.results.w = "arr" THEN reply.results.a
    ELSE <<>>

\* C6 (as claimed): a reply that yields no element ends in 502 "LLM returned
\* no candidates"; a reply that yields elements of which none is valid ends in
\* 502 "Candidates missing price/packSize"; neither message arises otherwise.
C6_FailureClassified ==
    \A r \in Reqs :
        Processed(r) =>
            LET y == Yields(received[r].chat) IN
            /\ (y = <<>>) <=> (response[r] = BadGateway("LLM returned no candidates"))
            /\ (y # <<>> /\ Valids(y) = <<>>)
                  <=> (response[r] = BadGateway("Candidates missing price/packSize"))

\* a body without a query, or with a query that is not a non-empty string
BadQuery(body) ==
    body.b = "none" \/ body.query.t # "str" \/ body.query = QStr("")

\* C7: a request with no query, or a query that is not a string or is the
\* empty string, is answered 400 { error: "Missing 'query' string" }, and no
\* call to the completion or the automation service is made for it.
C7_BadQueryRejected ==
    \A r \in Reqs :
        (received[r].body.b # "unset" /\ BadQuery(received[r].body)) =>
            /\ response[r] = [status |-> 400, error |-> "Missing 'query' string"]
            /\ calls[r] = <<>>

\* a request whose query is the empty string has been answered
C7_Witness ==
    \E r \in Reqs :
        /\ received[r].body = Body(QStr(""))
        /\ response[r].status = 400

\* C8: an array wrapped under items, whatever the object holds under results,
\* is normalized to the same candidate sequence as the bare array: the array.
C8_WrappedLikeBare ==
    \A r \in Reqs :
        Processed(r) =>
            LET reply == received[r].chat IN
            /\ (reply.c = "json" /\ reply.j = "arr") => candidates[r] = WArr(reply.a)
            /\ (reply.c = "json" /\ reply.j = "obj" /\ reply.items.w = "arr") =>
                  candidates[r] = WArr(reply.items.a)

\* a request went on to the automation call with two offers that came
\* wrapped under items, next to another array under results
C8_Witness ==
    \E r \in Reqs :
        /\ pc[r] = "awaitFetch"
        /\ received[r].chat.c = "json"
        /\ received[r].chat.j = "obj"
        /\ received[r].chat.items.w = "arr"
        /\ Len(received[r].chat.items.a) = 2
        /\ received[r].chat.results.w = "arr"
        /\ Len(received[r].chat.results.a) = 1
        /\ Len(withUnits[r]) = 2

\* C9: offers of equal unitPrice keep the order they had in the completion
\* service's array, and best is the first offer of the array among those of
\* the lowest unitPrice.
C9_StableOrder ==
    \A r \in Reqs :
        response[r].status = 200 =>
            LET c == response[r].candidates
                a == candidates[r].a
                m == response[r].best.unitPrice
                IsMin(e) == ValidOffer(e) /\ IsUnitPriceOf(m, e)
            IN
            /\ \A i \in 1..Len(c) :
                  LET Same(x) == IsUnitPriceOf(c[i].unitPrice, x)
                      ValidSame(e) == ValidOffer(e) /\ IsUnitPriceOf(c[i].unitPrice, e)
                      tied == SelectSeq(c, Same)
                  IN [j \in 1..Len(tied) |-> Strip(tied[j])] = SelectSeq(a, ValidSame)
            /\ \A i \in 1..Len(a) :
                  ValidOffer(a[i]) =>
                      m.n * a[i].packSize.n * a[i].basePrice.d
                          <= a[i].basePrice.n * m.d * a[i].packSize.d
            /\ SelectSeq(a, IsMin) # <<>>
            /\ Strip(response[r].best) = Head(SelectSeq(a, IsMin))

\* a 200 response to an array whose two cheapest offers tie and come behind a
\* dearer one: 2/(1/2) = 4, then 2/2 = 1 and 1/1 = 1
C9_Witness ==
    \E r \in Reqs :
        /\ response[r].status = 200
        /\ received[r].chat = JsonArr(<<Offer("shop/a", Num(2, 1), Half),
                                        Offer("shop/a", Num(2, 1), Num(2, 1)),
                                        Offer("shop/a", One, One)>>)
        /\ Strip(response[r].best) = Offer("shop/a", Num(2, 1), Num(2, 1))

\* C10: two requests that were given the same body and the same upstream
\* replies have sent the same response, however the handlers interleaved.
C10_SameInputsSameResponse ==
    \A r1, r2 \in Reqs :
        (pc[r1] = "done" /\ pc[r2] = "done" /\ received[r1] = received[r2]) =>
            response[r1] = response[r2]

\* two requests answered 200 on the same inputs while a third, given another
\* completion reply, is suspended between its own awaits
C10_Witness ==
    \E r1, r2, r3 \in Reqs :
        /\ r1 # r2
        /\ response[r1].status = 200
        /\ response[r2].status = 200
        /\ received[r1] = received[r2]
        /\ pc[r3] = "awaitJson"
        /\ received[r3].chat # received[r1].chat

\* the outbound calls of request r follow the stages: none, then the
\* completion call, then the automation call
InStageOrder(r) ==
    /\ Len(calls[r]) <= 2
    /\ Len(calls[r]) >= 1 => calls[r][1].svc = "completion"
    /\ Len(calls[r]) = 2 => calls[r][2].svc = "automation"

\* request r ended with a 400 or with an upstream-data 502
EndedEarly(r) ==
    \/ response[r].status = 400
    \/ response[r] = BadGateway("LLM returned no candidates")
    \/ response[r] = BadGateway("Candidates missing price/packSize")

\* what holds of request r in every state
StagesOnce(r) ==
    /\ InStageOrder(r)
    /\ pc[r] = "idle" => calls[r] = <<>>
    /\ pc[r] = "awaitChat" => Len(calls[r]) = 1
    /\ pc[r] \in {"awaitFetch", "awaitText", "awaitJson"} => Len(calls[r]) = 2
    /\ Len(calls[r]) = 2 =>
          /\ Processed(r)
          /\ withUnits[r] # <<>>
          /\ best[r] = withUnits[r][1]
          /\ calls[r][2].productUrl = best[r].productUrl
    /\ EndedEarly(r) => Len(calls[r]) <= 1
    /\ (response[r] # NoResponse) <=> (pc[r] = "done")

\* what holds of request r in every step: at most one call is issued, and
\* once a response is sent it stays as it is and no call follows it
StepsOnce(r) ==
    /\ \/ calls'[r] = calls[r]
       \/ /\ Len(calls'[r]) = Len(calls[r]) + 1
          /\ SubSeq(calls'[r], 1, Len(calls[r])) = calls[r]
    /\ response[r] # NoResponse =>
          /\ response'[r] = response[r]
          /\ calls'[r] = calls[r]

\* C11: within one request the completion service is called at most once,
\* the automation service at most once and only after the completion call has
\* returned and best was selected from its reply, with best.productUrl as the
\* target; no call is repeated; no automation call is made in a request that
\* ends with 400 or an upstream-data 502; a response is sent once, on
\* leaving the handler, and no outbound call is issued after it.
C11_StagesInOrderOnce ==
    /\ [](\A r \in Reqs : StagesOnce(r))
    /\ [][\A r \in Reqs : StepsOnce(r)]_vars

\* a request was answered 200 after its two calls, the automation call aimed
\* at the other shop's offer, which came last in the reply and is the best
C11_Witness ==
    \E r \in Reqs :
        /\ response[r].status = 200
        /\ Len(calls[r]) = 2
        /\ calls[r][2].productUrl = "shop/b"
        /\ received[r].chat.j = "arr"
        /\ Len(received[r].chat.a) = 3
        /\ received[r].chat.a[1] = Offer("shop/a", One, One)
        /\ received[r].chat.a[3] = Offer("shop/b", Num(-1, 1), One)

====
